---- MODULE Spec2Model ----
(***************************************************************************)
(* European Champions Dashboard (src/streamlit_app.py).                    *)
(*                                                                         *)
(* The script is re-executed top to bottom on every user interaction (a    *)
(* render pass).  The model follows one browser session: the data source   *)
(* (a CSV at the known path, or an uploaded CSV), the st.cache_data entry  *)
(* of load_data, the widget values kept between passes, and the script's   *)
(* own variables, which every pass recomputes.                             *)
(*                                                                         *)
(* A data frame is a sequence of rows [country, year, state, region]; a    *)
(* group-by result is the set of its rows (its row order is not used by    *)
(* the script except for display).  Club names are numbers whose order     *)
(* stands for the string order sort_values uses.  The year cell of the     *)
(* CSV is text; after line 75 it is a number or NA.  The dataset is        *)
(* assumed to hold the four required columns, with country, state and      *)
(* region never missing (spec section 3); column-name normalisation        *)
(* (line 74) is therefore not modelled.                                    *)
(***************************************************************************)
EXTENDS Integers, Sequences, FiniteSets, TLC

VARIABLES
    path_exists,              \* data_path.exists(), line 64
    csv,                      \* content of the user's soccer_data.csv
    up,                       \* what st.file_uploader returns: "None" or the file
    cache,                    \* st.cache_data entry of load_data
    reads,                    \* number of pd.read_csv calls so far
    load_src,                 \* branch load_data took in this pass
    pc,                       \* position of the script in the pass
    w_year,                   \* stored value of the year selectbox
    w_theme,                  \* stored value of the theme selectbox
    w_top_n,                  \* stored value of the top-N slider
    df_reshaped,
    year_list,
    selected_year,
    selected_color_theme,
    team_counts,
    max_teams,
    default_n,
    top_n,
    top_teams,
    df_selected_year,
    df_selected_year_sorted,
    winners,
    df_map_year,
    df_selected_year_grouped,
    heatmap_df,
    df_titles,
    rendered                  \* elements drawn so far in this pass

session == <<path_exists, csv, up, cache, reads>>
widgets == <<w_year, w_theme, w_top_n>>
sidebar == <<year_list, selected_year, selected_color_theme, team_counts,
             max_teams, default_n, top_n, top_teams>>
slices  == <<df_selected_year, df_selected_year_sorted>>
panel   == <<winners, df_map_year, df_selected_year_grouped, heatmap_df, df_titles>>
vars    == <<session, widgets, load_src, pc, df_reshaped, sidebar, slices, panel, rendered>>

-----------------------------------------------------------------------------
(* Values *)

\* pd.NA in the Int64 year column
NA == 0
\* st.selectbox over an empty option list returns None
NoneValue == -1
\* lower bound of the slider
SliderMin == 5
\* cap on the slider's upper bound
SliderCap == 50
\* cap on the slider's default
DefaultCap == 20

Min(a, b) == IF a <= b THEN a ELSE b
Max(a, b) == IF a >= b THEN a ELSE b

Row(c, y, s, r) == [country |-> c, year |-> y, state |-> s, region |-> r]

color_theme_list == <<"blues", "cividis", "greens", "inferno", "magma",
                      "plasma", "reds", "rainbow", "turbo", "viridis">>

-----------------------------------------------------------------------------
(* Input datasets: a base table cut to the clubs 1..k, optionally with every *)
(* year cell unparseable, followed by a short tail of extra rows.            *)

\* longest tail of extra rows
MaxTail == 1

BaseRows ==
    << Row("England",        "2022", 1, "PL"),
       Row("UK",             "2022", 5, "SC"),
       Row("Germany",        "2021", 2, "BL"),
       Row("Czech Republic", "2022", 3, "CZ"),
       Row("England",        "2021", 1, "PL"),
       Row("Russia",         "2022", 4, "RU"),
       Row("Germany",        "2022", 2, "BL"),
       Row("Germany",        "2023", 1, "BL"),
       Row("Czech Republic", "2021", 3, "CZ") >>

TailRows ==
    { Row("United Kingdom", "2022", 6, "SC"),
      Row("England",        "n/a",  1, "PL"),
      Row("Germany",        "2022", 2, "BL"),
      Row("Russia",         "2024", 4, "RU") }

BaseSizes == {0, 3, 5}

ClubsUpTo(rows, k) == SelectSeq(rows, LAMBDA r : r.state <= k)

Unparseable(rows) == [i \in DOMAIN rows |-> [rows[i] EXCEPT !.year = "n/a"]]

Tails == UNION { [1..m -> TailRows] : m \in 0..MaxTail }

Datasets ==
    { b \o t : b \in { ClubsUpTo(BaseRows, k) : k \in BaseSizes }
                     \cup { Unparseable(ClubsUpTo(BaseRows, k)) : k \in BaseSizes },
               t \in Tails }

-----------------------------------------------------------------------------
(* The pandas operations the script applies *)

\* pd.to_numeric(text, errors="coerce"): the number a year cell spells, else NA
to_numeric(text) ==
    CASE text = "2021" -> 2021
      [] text = "2022" -> 2022
      [] text = "2023" -> 2023
      [] text = "2024" -> 2024
      [] OTHER -> NA

\* line 75: the year column becomes nullable integers
CoerceYear(df) == [i \in DOMAIN df |-> [df[i] EXCEPT !.year = to_numeric(df[i].year)]]

\* Every arrangement of S in non-decreasing rank: what a sort that promises
\* no order among equal keys can return.
RECURSIVE SortedOrders(_, _)
SortedOrders(S, rank) ==
    IF S = {} THEN { <<>> }
    ELSE UNION { { <<x>> \o rest : rest \in SortedOrders(S \ {x}, rank) } :
                 x \in { y \in S : \A z \in S : rank[y] <= rank[z] } }

\* sequence of the members of a set of integers, in descending order
RECURSIVE Descending(_)
Descending(S) ==
    IF S = {} THEN <<>>
    ELSE LET m == CHOOSE x \in S : \A y \in S : y <= x
         IN  <<m>> \o Descending(S \ {m})

\* line 83: sorted(df.year.dropna().unique().tolist(), reverse=True)
YearList(df) == Descending({ df[i].year : i \in DOMAIN df } \ {NA})

\* st.selectbox: the stored choice, else the first option, else None
Selectbox(options, stored) ==
    IF stored # {} THEN CHOOSE v \in stored : TRUE
    ELSE IF Len(options) > 0 THEN options[1]
    ELSE NoneValue

\* variant of value_counts ranking the least frequent club first
ValueCountsAscending(df) ==
    LET clubs == { df[i].state : i \in DOMAIN df }
        n     == [c \in clubs |-> Cardinality({ i \in DOMAIN df : df[i].state = c })]
    IN  { [j \in DOMAIN o |-> [state |-> o[j], count |-> n[o[j]]]] :
          o \in SortedOrders(clubs, n) }

\* line 92: df['state'].value_counts(): one entry per club, most frequent
\* first, clubs of equal count in no promised order
ValueCounts(df) ==
    LET clubs == { df[i].state : i \in DOMAIN df }
        n     == [c \in clubs |-> Cardinality({ i \in DOMAIN df : df[i].state = c })]
    IN  { [j \in DOMAIN o |-> [state |-> o[j], count |-> n[o[j]]]] :
          o \in SortedOrders(clubs, [c \in clubs |-> 0 - n[c]]) }

\* line 93
MaxTeams(counts) == Min(SliderCap, Max(1, Len(counts)))

\* line 94
DefaultN(maxTeams) == Min(DefaultCap, maxTeams)

\* st.slider(label, min_value, max_value, value) returns a value only for a
\* consistent range; otherwise it raises StreamlitAPIException
SliderAccepts(lo, hi, value) == lo <= value /\ value <= hi

\* the value st.slider returns: the stored choice, else the default
SliderValue(stored, value) ==
    IF stored # {} THEN CHOOSE v \in stored : TRUE ELSE value

\* line 96: team_counts.head(top_n).index.tolist()
TopTeams(counts, n) ==
    [j \in 1..Min(Max(n, 0), Len(counts)) |-> counts[j].state]

\* variant of the year filter comparing with >= instead of ==
YearFilterAtLeast(df, year) ==
    SelectSeq(df, LAMBDA r : r.year # NA /\ r.year >= year)

\* line 99: df_reshaped[df_reshaped.year == selected_year].copy(); a row whose
\* year is NA never matches
YearFilter(df, year) ==
    SelectSeq(df, LAMBDA r : r.year # NA /\ r.year = year)

\* line 100: sort_values(by="state", ascending=True)
SortValues(df) ==
    { [j \in DOMAIN o |-> df[o[j]]] :
      o \in SortedOrders(DOMAIN df, [i \in DOMAIN df |-> df[i].state]) }

\* lines 152-153 and 190-194: groupby([state, region])["year"].count(): one
\* entry per (state, region) pair, holding the number of its rows whose year
\* is not NA
CountYearByClub(df) ==
    { [state |-> k[1], region |-> k[2],
       titles |-> Cardinality({ i \in DOMAIN df :
                                  /\ df[i].state = k[1]
                                  /\ df[i].region = k[2]
                                  /\ df[i].year # NA })] :
      k \in { <<df[i].state, df[i].region>> : i \in DOMAIN df } }

\* variant of the table that lacks the UK entry
country_fix_without_uk ==
    [ c \in {"England", "Czech Republic", "Russia"} |->
        CASE c = "England"        -> "United Kingdom"
          [] c = "Czech Republic" -> "Czechia"
          [] c = "Russia"         -> "Russian Federation" ]

\* variant of the table that sends England to UK, itself a key
country_fix_chained ==
    [ c \in {"England", "UK", "Czech Republic", "Russia"} |->
        CASE c = "England"        -> "UK"
          [] c = "UK"             -> "United Kingdom"
          [] c = "Czech Republic" -> "Czechia"
          [] c = "Russia"         -> "Russian Federation" ]

\* lines 163-168
country_fix ==
    [ c \in {"England", "UK", "Czech Republic", "Russia"} |->
        CASE c = "England"        -> "United Kingdom"
          [] c = "UK"             -> "United Kingdom"
          [] c = "Czech Republic" -> "Czechia"
          [] c = "Russia"         -> "Russian Federation" ]

\* Series.replace(dict) on one value: the value of a matching key, else the
\* value itself
Replace(table, v) == IF v \in DOMAIN table THEN table[v] ELSE v

\* line 170 on a frame
ReplaceCountry(df) ==
    [i \in DOMAIN df |-> [df[i] EXCEPT !.country = Replace(country_fix, df[i].country)]]

\* variant of the remap that writes the country column of the base frame too
MapYearFramesInPlace(slice, base) ==
    [df_map_year |-> ReplaceCountry(slice), df_reshaped |-> ReplaceCountry(base)]

\* lines 169-170: the remap is written to a copy of the year slice; the frames
\* the statement leaves behind
MapYearFrames(slice, base) ==
    [df_map_year |-> ReplaceCountry(slice), df_reshaped |-> base]

\* lines 173-176: groupby("country")["state"].count().rename(titles)
CountByCountry(df) ==
    { [country |-> c,
       titles  |-> Cardinality({ i \in DOMAIN df : df[i].country = c })] :
      c \in { df[i].country : i \in DOMAIN df } }

\* variant of the emptiness test that never reports an empty frame
IsEmptyNever(grouped) == FALSE

\* line 178: df_selected_year_grouped.empty
IsEmpty(grouped) == grouped = {}

\* line 185: df_reshaped[df_reshaped['state'].isin(top_teams)]
IsIn(df, names) ==
    SelectSeq(df, LAMBDA r : \E j \in DOMAIN names : names[j] = r.state)

-----------------------------------------------------------------------------
(* The session *)

NoCache == [hit |-> FALSE, val |-> <<>>]

\* what the script's variables hold before a pass assigns them
PassUnset ==
    /\ load_src = "none"
    /\ df_reshaped = <<>>
    /\ year_list = <<>>
    /\ selected_year = NoneValue
    /\ selected_color_theme = ""
    /\ team_counts = <<>>
    /\ max_teams = 0
    /\ default_n = 0
    /\ top_n = 0
    /\ top_teams = <<>>
    /\ df_selected_year = <<>>
    /\ df_selected_year_sorted = <<>>
    /\ winners = {}
    /\ df_map_year = <<>>
    /\ df_selected_year_grouped = {}
    /\ heatmap_df = <<>>
    /\ df_titles = {}
    /\ rendered = {}

Init ==
    /\ path_exists \in BOOLEAN
    /\ csv \in Datasets
    /\ up = "None"
    /\ cache = NoCache
    /\ reads = 0
    /\ pc = "load"
    /\ w_year = {}
    /\ w_theme = {}
    /\ w_top_n = {}
    /\ PassUnset

\* variant of load_data without the cache decorator
CacheNever(c) == FALSE

\* @st.cache_data, line 61: a stored result is returned without running the body
CacheHit(c) == c.hit

\* variant of the upload test that never sees None
NotNoneAlways(u) == TRUE

\* line 68: up is not None
NotNone(u) == u # "None"

\* lines 61-72: df_reshaped = load_data()
LoadData ==
    /\ pc = "load"
    /\ IF CacheHit(cache)
       THEN /\ df_reshaped' = cache.val
            /\ load_src' = "cache"
            /\ pc' = "normalize"
            /\ UNCHANGED <<cache, reads, rendered>>
       ELSE IF path_exists
       THEN /\ df_reshaped' = csv
            /\ cache' = [hit |-> TRUE, val |-> csv]
            /\ reads' = reads + 1
            /\ load_src' = "path"
            /\ pc' = "normalize"
            /\ UNCHANGED rendered
       ELSE IF NotNone(up)
       THEN /\ df_reshaped' = csv
            /\ cache' = [hit |-> TRUE, val |-> csv]
            /\ reads' = reads + 1
            /\ load_src' = "upload"
            /\ pc' = "normalize"
            /\ rendered' = rendered \cup {"warning", "uploader"}
       ELSE /\ pc' = "stopped"
            /\ load_src' = "unavailable"
            /\ rendered' = rendered \cup {"warning", "uploader"}
            /\ UNCHANGED <<df_reshaped, cache, reads>>
    /\ UNCHANGED <<path_exists, csv, up, widgets, sidebar, slices, panel>>

\* lines 74-75
Normalize ==
    /\ pc = "normalize"
    /\ df_reshaped' = CoerceYear(df_reshaped)
    /\ pc' = "sidebar"
    /\ UNCHANGED <<session, widgets, load_src, sidebar, slices, panel, rendered>>

\* lines 79-96; an exception of st.slider ends the pass at line 95
Sidebar ==
    /\ pc = "sidebar"
    /\ year_list' = YearList(df_reshaped)
    /\ selected_year' = Selectbox(year_list', w_year)
    /\ selected_color_theme' = Selectbox(color_theme_list, w_theme)
    /\ team_counts' \in ValueCounts(df_reshaped)
    /\ max_teams' = MaxTeams(team_counts')
    /\ default_n' = DefaultN(max_teams')
    /\ IF SliderAccepts(SliderMin, max_teams', default_n')
       THEN /\ top_n' = SliderValue(w_top_n, default_n')
            /\ top_teams' = TopTeams(team_counts', top_n')
            /\ rendered' = rendered \cup {"title", "year", "theme", "slider"}
            /\ pc' = "slices"
       ELSE /\ rendered' = rendered \cup {"title", "year", "theme", "exception"}
            /\ pc' = "error"
            /\ UNCHANGED <<top_n, top_teams>>
    /\ UNCHANGED <<session, widgets, load_src, df_reshaped, slices, panel>>

\* lines 99-100
Slices ==
    /\ pc = "slices"
    /\ df_selected_year' = YearFilter(df_reshaped, selected_year)
    /\ df_selected_year_sorted' \in SortValues(df_selected_year')
    /\ pc' = "col0"
    /\ UNCHANGED <<session, widgets, load_src, df_reshaped, sidebar, panel, rendered>>

\* lines 150-157
WinnersTally ==
    /\ pc = "col0"
    /\ winners' = CountYearByClub(df_reshaped)
    /\ rendered' = rendered \cup {"tally"}
    /\ pc' = "map"
    /\ UNCHANGED <<session, widgets, load_src, df_reshaped, sidebar, slices,
                   df_map_year, df_selected_year_grouped, heatmap_df, df_titles>>

\* lines 160-182
CountryMap ==
    /\ pc = "map"
    /\ LET after == MapYearFrames(df_selected_year, df_reshaped)
       IN  /\ df_map_year' = after.df_map_year
           /\ df_reshaped' = after.df_reshaped
    /\ df_selected_year_grouped' = CountByCountry(df_map_year')
    /\ IF IsEmpty(df_selected_year_grouped')
       THEN rendered' = rendered \cup {"notice"}
       ELSE rendered' = rendered \cup {"choropleth"}
    /\ pc' = "charts"
    /\ UNCHANGED <<session, widgets, load_src, sidebar, slices, winners,
                   heatmap_df, df_titles>>

\* lines 184-207
Charts ==
    /\ pc = "charts"
    /\ heatmap_df' = IsIn(df_reshaped, top_teams)
    /\ df_titles' = CountYearByClub(df_reshaped)
    /\ rendered' = rendered \cup {"heatmap", "bar"}
    /\ pc' = "col2"
    /\ UNCHANGED <<session, widgets, load_src, df_reshaped, sidebar, slices,
                   winners, df_map_year, df_selected_year_grouped>>

\* lines 209-226
Detail ==
    /\ pc = "col2"
    /\ rendered' = rendered \cup {"detail", "about"}
    /\ pc' = "done"
    /\ UNCHANGED <<session, widgets, load_src, df_reshaped, sidebar, slices, panel>>

\* a new pass: the script starts again from its first line
StartPass ==
    /\ pc' = "load"
    /\ load_src' = "none"
    /\ df_reshaped' = <<>>
    /\ year_list' = <<>>
    /\ selected_year' = NoneValue
    /\ selected_color_theme' = ""
    /\ team_counts' = <<>>
    /\ max_teams' = 0
    /\ default_n' = 0
    /\ top_n' = 0
    /\ top_teams' = <<>>
    /\ df_selected_year' = <<>>
    /\ df_selected_year_sorted' = <<>>
    /\ winners' = {}
    /\ df_map_year' = <<>>
    /\ df_selected_year_grouped' = {}
    /\ heatmap_df' = <<>>
    /\ df_titles' = {}
    /\ rendered' = {}

\* the user reruns the page without changing anything
Rerun ==
    /\ pc \in {"done", "stopped", "error"}
    /\ StartPass
    /\ UNCHANGED <<session, widgets>>

\* the user uploads soccer_data.csv in the uploader of line 67
Upload ==
    /\ pc = "stopped"
    /\ up = "None"
    /\ up' = "UploadedFile"
    /\ StartPass
    /\ UNCHANGED <<path_exists, csv, cache, reads, widgets>>

\* the user picks another year in the selectbox of line 84
SelectYear ==
    /\ pc \in {"done", "error"}
    /\ \E j \in DOMAIN year_list :
         /\ year_list[j] # selected_year
         /\ w_year' = {year_list[j]}
    /\ StartPass
    /\ UNCHANGED <<session, w_theme, w_top_n>>

\* the user picks another theme in the selectbox of line 89
SelectTheme ==
    /\ pc \in {"done", "error"}
    /\ \E j \in DOMAIN color_theme_list :
         /\ color_theme_list[j] # selected_color_theme
         /\ w_theme' = {color_theme_list[j]}
    /\ StartPass
    /\ UNCHANGED <<session, w_year, w_top_n>>

\* the user moves the slider of line 95
SlideTopN ==
    /\ pc = "done"
    /\ \E n \in SliderMin..max_teams :
         /\ n # top_n
         /\ w_top_n' = {n}
    /\ StartPass
    /\ UNCHANGED <<session, w_year, w_theme>>

Next ==
    \/ LoadData
    \/ Normalize
    \/ Sidebar
    \/ Slices
    \/ WinnersTally
    \/ CountryMap
    \/ Charts
    \/ Detail
    \/ Rerun
    \/ Upload
    \/ SelectYear
    \/ SelectTheme
    \/ SlideTopN

Spec == Init /\ [][Next]_vars

-----------------------------------------------------------------------------
(* Properties *)

Range(f) == { f[i] : i \in DOMAIN f }

\* number of occurrences of row r in frame df
Count(df, r) == Cardinality({ i \in DOMAIN df : df[i] = r })

RECURSIVE SumTitles(_)
SumTitles(S) ==
    IF S = {} THEN 0
    ELSE LET e == CHOOSE x \in S : TRUE
         IN  e.titles + SumTitles(S \ {e})

Clubs(df) == { df[i].state : i \in DOMAIN df }

ClubCount(df, c) == Cardinality({ i \in DOMAIN df : df[i].state = c })

\* positions of a pass at which the sidebar has run to its end
AfterSidebar == {"slices", "col0", "map", "charts", "col2", "done"}

\* positions of a pass at which the map section has run
AfterMap == {"charts", "col2", "done"}

\* years asked of the year filter: every year of the data, years of no row, None
ProbeYears == (2020..2025) \cup {NoneValue}

(* C1: the titles of the Club/League Aggregation (df_titles, and the winners *)
(* tally built the same way) sum to the number of rows of the dataset, also  *)
(* when some rows have a missing year.                                       *)
C1_TitlesSumToRowCount ==
    /\ pc \in {"map", "charts", "col2", "done"}
          => SumTitles(winners) = Len(df_reshaped)
    /\ pc \in {"col2", "done"}
          => SumTitles(df_titles) = Len(df_reshaped)

\* out holds exactly the rows of df whose year is y, each as often as df does,
\* in ascending order of state, and nothing when no row has year y
IsYearSlice(out, df, y) ==
    /\ \A r \in Range(df) \cup Range(out) :
          Count(out, r) = IF r.year = y THEN Count(df, r) ELSE 0
    /\ \A j \in 1..(Len(out) - 1) : out[j].state <= out[j + 1].state
    /\ (\A i \in DOMAIN df : df[i].year # y) => out = <<>>

(* C2: the Year Filter output holds exactly the rows whose year is the        *)
(* selected year, multiplicity kept, ordered by state ascending, and is empty *)
(* for a year of no row; for the pass's own selection and for every year      *)
(* asked of the filter.                                                       *)
C2_YearFilterExact ==
    /\ pc \in AfterSidebar \ {"slices"}
          => IsYearSlice(df_selected_year_sorted, df_reshaped, selected_year)
    /\ pc = "col0"
          => \A y \in ProbeYears :
                \A out \in SortValues(YearFilter(df_reshaped, y)) :
                   IsYearSlice(out, df_reshaped, y)

\* a pass has filtered a year of several clubs out of a dataset that also holds
\* other years and a missing year, and the sort moved rows
C2_Witness ==
    /\ pc = "col0"
    /\ Len(df_selected_year_sorted) >= 3
    /\ df_selected_year_sorted # df_selected_year
    /\ \E i \in DOMAIN df_reshaped : df_reshaped[i].year = NA
    /\ \E i \in DOMAIN df_reshaped : df_reshaped[i].year \notin {NA, selected_year}

\* top holds n distinct clubs of df in non-increasing order of their number of
\* rows, no club left out has more rows than one listed, and all clubs are
\* listed when n is their number
IsTopN(top, df, n) ==
    /\ Len(top) = n
    /\ \A i, j \in DOMAIN top : top[i] = top[j] => i = j
    /\ Range(top) \subseteq Clubs(df)
    /\ \A j \in 1..(Len(top) - 1) : ClubCount(df, top[j]) >= ClubCount(df, top[j + 1])
    /\ \A c \in Clubs(df) \ Range(top) :
          \A j \in DOMAIN top : ClubCount(df, c) <= ClubCount(df, top[j])
    /\ n = Cardinality(Clubs(df)) => Range(top) = Clubs(df)

(* C3: for N up to the number of distinct clubs the Top-N Team Selector      *)
(* returns N distinct clubs of the dataset in non-increasing order of count, *)
(* leaves out no club with a strictly higher count, and returns all clubs    *)
(* for N = number of clubs; for the pass's own top_n and for every such N    *)
(* and every order value_counts may give.                                    *)
C3_TopNTeams ==
    /\ pc \in AfterSidebar /\ top_n <= Cardinality(Clubs(df_reshaped))
          => IsTopN(top_teams, df_reshaped, top_n)
    /\ pc \in {"slices", "error"}
          => \A counts \in ValueCounts(df_reshaped) :
                \A n \in 0..Cardinality(Clubs(df_reshaped)) :
                   IsTopN(TopTeams(counts, n), df_reshaped, n)

\* a pass selected 5 of 6 clubs whose counts differ
C3_Witness ==
    /\ pc = "slices"
    /\ top_n = SliderMin
    /\ Len(top_teams) = SliderMin
    /\ Len(team_counts) > SliderMin
    /\ team_counts[1].count > team_counts[Len(team_counts)].count

(* C4: in every pass the slider's range is consistent (lower <= default <=   *)
(* upper), and the top-N value in use lies in 5 .. min(50, number of         *)
(* distinct clubs), also when the dataset has fewer than 5 distinct clubs.   *)
C4_SliderRangeConsistent ==
    pc \in AfterSidebar \cup {"error"}
       => /\ SliderMin <= default_n
          /\ default_n <= max_teams
          /\ max_teams <= Min(SliderCap, Cardinality(Clubs(df_reshaped)))
          /\ pc # "error"
                => /\ SliderMin <= top_n
                   /\ top_n <= Min(SliderCap, Cardinality(Clubs(df_reshaped)))


\* no derived view has been computed in this pass
NoDerivedView ==
    /\ df_reshaped = <<>>
    /\ year_list = <<>>
    /\ team_counts = <<>>
    /\ top_teams = <<>>
    /\ df_selected_year = <<>>
    /\ df_selected_year_sorted = <<>>
    /\ winners = {}
    /\ df_map_year = <<>>
    /\ df_selected_year_grouped = {}
    /\ heatmap_df = <<>>
    /\ df_titles = {}

\* the tables and charts of the main panel
TablesAndCharts == {"tally", "choropleth", "heatmap", "bar", "detail"}

(* C5: with no file at the known path and no upload, every pass ends at the  *)
(* blocking prompt: it halts in load_data, computes no derived view and      *)
(* draws no table or chart, and nothing was read or cached; once a file is   *)
(* uploaded, a pass that has left load_data holds the uploaded dataset and   *)
(* is not halted.                                                            *)
C5_DataUnavailableHalts ==
    /\ ~path_exists /\ up = "None" /\ pc # "load"
          => /\ pc = "stopped"
             /\ load_src = "unavailable"
    /\ pc = "stopped"
          => /\ ~path_exists /\ up = "None"
             /\ NoDerivedView
             /\ rendered = {"warning", "uploader"}
             /\ rendered \cap TablesAndCharts = {}
             /\ ~cache.hit /\ reads = 0
    /\ ~path_exists /\ up # "None" /\ pc # "load"
          => /\ pc # "stopped"
             /\ load_src \in {"upload", "cache"}
             /\ cache = [hit |-> TRUE, val |-> csv]
             /\ IF pc = "normalize" THEN df_reshaped = csv
                ELSE df_reshaped = CoerceYear(csv)

\* after a halted pass the user uploaded the file and the next pass rendered
\* every table and chart from it
C5_Witness ==
    /\ ~path_exists
    /\ up = "UploadedFile"
    /\ load_src = "upload"
    /\ pc = "done"
    /\ TablesAndCharts \subseteq rendered
    /\ Len(df_reshaped) > 0

(* C6: the data source is read at most once in a session: a pass that found  *)
(* the cache filled got the cached dataset and read nothing, whatever        *)
(* interactions led to it.                                                   *)
C6_ReadAtMostOnce ==
    /\ reads <= 1
    /\ cache.hit => reads = 1 /\ cache.val = csv
    /\ load_src = "cache" => cache.hit /\ reads = 1
    /\ load_src = "cache" /\ pc = "normalize" => df_reshaped = cache.val
    /\ load_src \in {"path", "upload"} => w_year = {} /\ w_theme = {} /\ w_top_n = {}

\* a pass after a year, a theme and a top-N change was served from the cache
C6_Witness ==
    /\ pc = "done"
    /\ load_src = "cache"
    /\ reads = 1
    /\ w_year # {} /\ w_theme # {} /\ w_top_n # {}

\* the remap the Country Aggregation is to apply
CanonicalCountry(c) ==
    CASE c \in {"England", "UK"} -> "United Kingdom"
      [] c = "Czech Republic"    -> "Czechia"
      [] c = "Russia"            -> "Russian Federation"
      [] OTHER                   -> c

\* one (country, titles) pair per canonical country among the rows of year y,
\* titles being the number of those rows
CountryTitles(df, y) ==
    LET rows == { i \in DOMAIN df : df[i].year = y }
    IN  { [country |-> c,
           titles  |-> Cardinality({ i \in rows : CanonicalCountry(df[i].country) = c })] :
          c \in { CanonicalCountry(df[i].country) : i \in rows } }

ExampleRows ==
    << Row("UK",      2021, 11, "League1"),
       Row("England", 2022, 12, "League1"),
       Row("Germany", 2022, 13, "League2") >>

(* C7: Country Aggregation yields one (country, titles) pair per remapped    *)
(* country of the year slice (England, UK -> United Kingdom; Czech Republic  *)
(* -> Czechia; Russia -> Russian Federation; others unchanged), titles being *)
(* the number of rows of the slice with that remapped country; rows of other *)
(* years add nothing; the spec's example gives {(United Kingdom,1),          *)
(* (Germany,1)} for 2022.                                                    *)
C7_CountryAggregation ==
    /\ pc \in AfterMap
          => df_selected_year_grouped = CountryTitles(df_reshaped, selected_year)
    /\ pc = "charts"
          => \A y \in ProbeYears :
                CountByCountry(ReplaceCountry(YearFilter(df_reshaped, y)))
                   = CountryTitles(df_reshaped, y)
    /\ CountByCountry(ReplaceCountry(YearFilter(ExampleRows, 2022)))
          = { [country |-> "United Kingdom", titles |-> 1],
              [country |-> "Germany", titles |-> 1] }

\* a year slice with an England row and a UK row was counted as one country,
\* next to other countries, in a dataset that holds other years
C7_Witness ==
    /\ pc = "charts"
    /\ \E i, j \in DOMAIN df_selected_year :
          df_selected_year[i].country = "England" /\ df_selected_year[j].country = "UK"
    /\ \E g \in df_selected_year_grouped : g.country = "United Kingdom" /\ g.titles >= 2
    /\ Cardinality(df_selected_year_grouped) >= 3
    /\ Len(df_selected_year) < Len(df_reshaped)

\* country names the remap is asked about: its keys, its targets, others
CountryNames ==
    DOMAIN country_fix \cup Range(country_fix)
       \cup {"Germany", "United Kingdom", "Czechia", "Russian Federation", "Spain"}

(* C8: the country remap is idempotent: remapping a remapped name changes    *)
(* nothing, no target of the table is one of its keys, and remapping the     *)
(* already remapped rows of a pass leaves the rows and the Country           *)
(* Aggregation as they are.                                                  *)
C8_RemapIdempotent ==
    /\ \A c \in CountryNames :
          Replace(country_fix, Replace(country_fix, c)) = Replace(country_fix, c)
    /\ Range(country_fix) \cap DOMAIN country_fix = {}
    /\ \A c \in {"United Kingdom", "Czechia", "Russian Federation"} :
          Replace(country_fix, c) = c
    /\ pc \in AfterMap
          => /\ ReplaceCountry(df_map_year) = df_map_year
             /\ CountByCountry(ReplaceCountry(df_map_year)) = df_selected_year_grouped

\* the remap has rewritten a row of the pass (England to United Kingdom) next
\* to a row that already had the canonical name
C8_Witness ==
    /\ pc \in AfterMap
    /\ \E i \in DOMAIN df_map_year :
          df_selected_year[i].country = "England" /\ df_map_year[i].country = "United Kingdom"
    /\ \E i \in DOMAIN df_map_year :
          df_selected_year[i].country = "United Kingdom"

\* positions of a pass at which lines 74-75 have run
AfterNormalize == AfterSidebar \cup {"sidebar", "error"}

(* C9: after load the base dataset is read-only: in every pass, at every     *)
(* position after normalisation, df_reshaped is the normalised dataset that  *)
(* was loaded, the cache entry is the dataset that was read, and the year    *)
(* slice keeps its country names; the remap shows only in df_map_year.       *)
C9_BaseReadOnly ==
    /\ cache.hit => cache.val = csv
    /\ pc \in AfterNormalize => df_reshaped = CoerceYear(csv)
    /\ pc \in AfterMap
          => /\ df_selected_year = YearFilter(CoerceYear(csv), selected_year)
             /\ df_map_year = ReplaceCountry(df_selected_year)

\* a later pass, served from the cache after a selector change, has remapped
\* country names in df_map_year and drawn every chart
C9_Witness ==
    /\ pc = "done"
    /\ load_src = "cache"
    /\ w_year # {}
    /\ df_map_year # df_selected_year
    /\ \E i \in DOMAIN df_reshaped : df_reshaped[i].country \in DOMAIN country_fix

(* C10: a pass that has run the map section shows exactly one of the "no     *)
(* data" notice and the choropleth: the notice when the country aggregation  *)
(* is empty, the choropleth otherwise; an empty year slice gives an empty    *)
(* aggregation; the pass is not halted: it goes on to draw the other charts  *)
(* and tables, unlike the DataUnavailable halt, which shows neither.         *)
C10_EmptySelectionNotice ==
    /\ pc \in AfterMap
          => /\ ("notice" \in rendered) # ("choropleth" \in rendered)
             /\ "notice" \in rendered <=> df_selected_year_grouped = {}
             /\ df_selected_year = <<>> => df_selected_year_grouped = {}
             /\ load_src # "unavailable"
    /\ pc \notin AfterMap => rendered \cap {"notice", "choropleth"} = {}
    /\ pc = "done" => {"tally", "heatmap", "bar", "detail"} \subseteq rendered

\* a pass over a dataset without any usable year showed the notice and still
\* drew the other charts and tables
C10_Witness ==
    /\ pc = "done"
    /\ "notice" \in rendered
    /\ df_selected_year = <<>>
    /\ Len(df_reshaped) > 0
    /\ {"tally", "heatmap", "bar", "detail"} \subseteq rendered

====
